---- MODULE Spec2Model ----
(***************************************************************************)
(* TriviaBot (src/app.py): the question generators, the generator pool     *)
(* with its fallback loop (pick_generator), and the Streamlit script that  *)
(* keeps the current question and the reveal flag in st.session_state.     *)
(*                                                                         *)
(* Three specifications over the same definitions:                         *)
(*   SpecCapital  fetch_restcountries_capital_question, step by step;      *)
(*   SpecPick     one pick_generator request, one loop iteration a step;   *)
(*   Spec         the script: one action per user event, each a whole run  *)
(*                of the script with pick_generator run to completion.     *)
(*                                                                         *)
(* random.shuffle / random.choice are nondeterministic choices; what the   *)
(* three HTTP services answer is a nondeterministic choice among response  *)
(* bodies, well formed and malformed.                                      *)
(***************************************************************************)
EXTENDS Integers, Sequences, FiniteSets, TLC

VARIABLES
    network,        \* "up" | "down": whether HTTP requests can succeed
    \* ---- the script (Spec)
    session_state,  \* st.session_state: a dict with keys qa, revealed
    difficulty,     \* value of the Difficulty radio widget
    event,          \* what caused the latest script run
    requested,      \* labels pick_generator was called with in the latest run
    aborted,        \* the latest script run ended in an uncaught exception
    answerShown,    \* the answer rendered by the latest run (None: not shown)
    revealButton,   \* the Reveal Answer button was rendered by the latest run
    lastReturned,   \* the tuple pick_generator returned most recently
    \* ---- one pick_generator request (SpecPick)
    pc,             \* "idle" | "loop" | "returned" | "raised"
    diff_key,       \* internal tier of the request
    generators,     \* the shuffled list of generator thunks
    i,              \* position of the for loop in generators (1-based)
    calls,          \* the generator calls made so far in this request
    ret,            \* the tuple returned by pick_generator
    \* ---- one capital-generator call (SpecCapital)
    capPc,          \* "idle" | "fetched" | "chosen" | "done"
    capTier,        \* diff_key argument
    capData,        \* what get_json returned
    capPool,        \* the list random.choice drew from
    capChosen,      \* <<c>>: the record chosen; <<>>: none
    capOut          \* the call's outcome

hostVars == <<session_state, difficulty, event, requested, aborted, answerShown,
             revealButton, lastReturned>>
pickVars == <<pc, diff_key, generators, i, calls, ret>>
capVars  == <<capPc, capTier, capData, capPool, capChosen, capOut>>
vars     == <<network, hostVars, pickVars, capVars>>

-----------------------------------------------------------------------------
(* Python values *)

\* Python's None where a string is expected.
None == "<None>"

\* Truthiness of an Optional[str]: None and "" are falsy.
Truthy(x) == x # None /\ x # ""

\* An empty dict / empty list.
EmptyDict == [k \in {} |-> None]

Range(s) == {s[k] : k \in DOMAIN s}

\* A dict with key k optional: absent, or present with a value of vals.
Opt(k, vals) == {EmptyDict} \cup {k :> v : v \in vals}

\* The result of a call: a returned (q, a, cat) tuple or an exception.
Returned(t) == [raised |-> FALSE, val |-> t]
Raised == [raised |-> TRUE]
Unavailable == Returned(<<None, None, None>>)

-----------------------------------------------------------------------------
(* Difficulty *)

DIFF_LABELS == <<"Baby Barbara", "Average Joe", "College Carl", "PhD Pat">>

DIFF_MAP ==
    [l \in Range(DIFF_LABELS) |->
        CASE l = "Baby Barbara" -> "easy"
          [] l = "Average Joe"  -> "medium"
          [] l = "College Carl" -> "hard"
          [] l = "PhD Pat"      -> "expert"]

DiffKeys == {"easy", "medium", "hard", "expert"}

\* DIFF_MAP.get(label, "easy")
DiffMapGet(label) == IF label \in DOMAIN DIFF_MAP THEN DIFF_MAP[label] ELSE "easy"

map_to_trivia_api(diff_label) ==
    LET d == DiffMapGet(diff_label) IN IF d = "expert" THEN "hard" ELSE d

-----------------------------------------------------------------------------
(* The content sources: what the three services may answer *)

\* base64 text as OpenTDB sends it with encode=base64, and what it decodes to.
Base64Table ==
    ("V2hpY2ggY2F0ICZhbXA7IG1vdXNlIGR1byBkZWJ1dGVkIGluIDE5NDA/"
            :> "Which cat &amp; mouse duo debuted in 1940?")
    @@ ("VG9tICZhbXA7IEplcnJ5" :> "Tom &amp; Jerry")
    @@ ("RW50ZXJ0YWlubWVudDogQ2FydG9vbiAmIEFuaW1hdGlvbnM="
            :> "Entertainment: Cartoon & Animations")
    @@ ("" :> "")

\* A string whose length is not a multiple of four: b64decode raises
\* binascii.Error (Incorrect padding).
BadPadding == "VG9tICZhbXA7IEplcnJ5Cg"

EncQuestion == "V2hpY2ggY2F0ICZhbXA7IG1vdXNlIGR1byBkZWJ1dGVkIGluIDE5NDA/"
EncAnswer   == "VG9tICZhbXA7IEplcnJ5"
EncCategory == "RW50ZXJ0YWlubWVudDogQ2FydG9vbiAmIEFuaW1hdGlvbnM="

OpentdbItems ==
    {q @@ a @@ c :
        q \in Opt("question", {EncQuestion, "", BadPadding}),
        a \in Opt("correct_answer", {EncAnswer, ""}),
        c \in Opt("category", {EncCategory, ""})}

OpentdbBodies ==
    {EmptyDict}
    \cup {rc @@ rs :
            rc \in Opt("response_code", {0, 1}),
            rs \in Opt("results", {<<>>} \cup {<<it>> : it \in OpentdbItems})}

NotFoundType == "https://mediawiki.org/wiki/HyperSwitch/errors/not_found"

WikipediaBodies ==
    {EmptyDict, [type |-> "standard"], [type |-> NotFoundType], [title |-> "Not found."]}

\* Records of the REST Countries answer, well formed and not.
CountryRecords ==
    { [name |-> [common |-> "France"], capital |-> <<"Paris">>,
       region |-> "Europe", population |-> 67391582],
      [name |-> [common |-> "South Africa"],
       capital |-> <<"Pretoria", "Bloemfontein", "Cape Town">>,
       region |-> "Africa", population |-> 59308690],
      [name |-> [common |-> "Ethiopia"], capital |-> <<"Addis Ababa">>,
       region |-> "Africa", population |-> 114963583],
      [name |-> [common |-> "Peru"], capital |-> <<"Lima">>,
       region |-> "Americas", population |-> 32971846],
      [name |-> [common |-> "Switzerland"], capital |-> <<"Bern">>,
       region |-> "Europe", population |-> 8654622],
      [name |-> [common |-> "Slovenia"], capital |-> <<"Ljubljana">>,
       region |-> "Europe", population |-> 2100126],
      [name |-> [common |-> "Palau"], capital |-> <<"Ngerulmud">>,
       region |-> "Oceania", population |-> 18092],
      [name |-> [common |-> "Antarctica"], capital |-> <<>>,
       region |-> "Antarctic", population |-> 1000],
      [name |-> [common |-> "Macau"],
       region |-> "Asia", population |-> 649342],
      [name |-> [common |-> "Nauru"], capital |-> <<"">>,
       region |-> "Oceania", population |-> 10834],
      [name |-> [official |-> "Republic of Kenya"], capital |-> <<"Nairobi">>,
       region |-> "Africa"],
      [capital |-> <<"Vaduz">>, region |-> "Europe", population |-> 38137] }

\* Largest number of records in a REST Countries answer of the model.
MaxCountries == 2

CountryLists == UNION {[1..n -> CountryRecords] : n \in 0..MaxCountries}

Bodies(url) ==
    CASE url = "opentdb"       -> OpentdbBodies
      [] url = "restcountries" -> CountryLists
      [] url = "wikipedia"     -> WikipediaBodies

\* What get_json returns: None, or the parsed body.
NoneJson == [none |-> TRUE]
Json(v) == [none |-> FALSE, val |-> v]

\* `not data`: None, {} and [] are falsy.
Falsy(data) == data.none \/ DOMAIN data.val = {}

\* A get_json that hands the caller a body although the request failed.
get_json_ignoring_failure(url, net) ==
    {NoneJson} \cup {Json(b) : b \in Bodies(url)}

\* requests.get + raise_for_status + r.json(); every exception becomes None.
\* With the network down every request fails; with it up a request may still
\* fail (timeout, HTTP error status, body that is not JSON).
get_json(url, net) ==
    IF net = "down"
    THEN {NoneJson}
    ELSE {NoneJson} \cup {Json(b) : b \in Bodies(url)}

-----------------------------------------------------------------------------
(* Text.  Strings are ASCII here: the source's typographic characters are   *)
(* written  <= for U+2264,  -- for the em dash,  ' for curly quotes,        *)
(* ... for the ellipsis,  * for the bullet,  2 for the subscript two,       *)
(* o for o-circumflex.                                                      *)

\* base64.b64decode(s): defined on well-padded text.
Base64Valid(s) == s \in DOMAIN Base64Table
Base64Decode(s) == Base64Table[s]

\* html.unescape(s): character references become their characters.
HtmlUnescape(s) ==
    CASE s = "Which cat &amp; mouse duo debuted in 1940?"
            -> "Which cat & mouse duo debuted in 1940?"
      [] s = "Tom &amp; Jerry" -> "Tom & Jerry"
      [] OTHER -> s

-----------------------------------------------------------------------------
(* fetch_opentdb_question *)

\* The query parameters of the request to opentdb.com/api.php.
OpentdbParams(difficulty_api, category) ==
    [amount |-> 1, type |-> "multiple", encode |-> "base64"]
    @@ (IF difficulty_api \in {"easy", "medium", "hard"}
        THEN "difficulty" :> difficulty_api ELSE EmptyDict)
    @@ (IF category # None THEN "category" :> category ELSE EmptyDict)

\* Lines 72-79 on what get_json returned.
OpentdbParse(data) ==
    IF Falsy(data) THEN Unavailable
    ELSE IF "response_code" \notin DOMAIN data.val THEN Unavailable
    ELSE IF data.val.response_code # 0 THEN Unavailable
    ELSE IF "results" \notin DOMAIN data.val THEN Raised        \* KeyError
    ELSE IF Len(data.val.results) = 0 THEN Raised               \* IndexError
    ELSE LET item == data.val.results[1] IN
         IF {"question", "correct_answer", "category"} \ DOMAIN item # {}
         THEN Raised                                            \* KeyError
         ELSE IF \E k \in {"question", "correct_answer", "category"} :
                    ~Base64Valid(item[k])
         THEN Raised                                            \* binascii.Error
         ELSE Returned(<<HtmlUnescape(Base64Decode(item.question)),
                         HtmlUnescape(Base64Decode(item.correct_answer)),
                         Base64Decode(item.category)>>)

fetch_opentdb_question(difficulty_api, category, net) ==
    {OpentdbParse(data) : data \in get_json("opentdb", net)}

-----------------------------------------------------------------------------
(* fetch_restcountries_capital_question *)

easy_whitelist ==
    {"United States", "Canada", "United Kingdom", "France", "Germany", "Italy", "Spain",
     "Japan", "Australia", "Brazil", "Mexico", "India", "China", "Russia", "South Africa",
     "Egypt", "Argentina", "Netherlands", "Sweden", "Norway", "Denmark", "Ireland"}

PopulousMin == 20000000
MediumMin   == 5000000
MediumMax   == 20000000
HardMax     == 5000000
ExpertMax   == 1000000

\* (c.get("population") or 0)
Population(c) == IF "population" \in DOMAIN c THEN c.population ELSE 0

\* c.get("region")
Region(c) == IF "region" \in DOMAIN c THEN c.region ELSE None

\* c["name"].get("common")
Common(c) == IF "common" \in DOMAIN c.name THEN c.name.common ELSE None

\* Line 86: the records with a non-empty capital list.
Countries(data) ==
    SelectSeq(data, LAMBDA c : "capital" \in DOMAIN c /\ c.capital # <<>>)

\* A choose_* ends in an exception or in random.choice(pool).
ChoiceRaised == [raised |-> TRUE, pool |-> <<>>]
ChoiceFrom(pool) == [raised |-> FALSE, pool |-> pool]

InEasyWhitelist(c) == Common(c) \in easy_whitelist
IsPopulous(c) == Population(c) >= PopulousMin
IsMedium(c)   == MediumMin <= Population(c) /\ Population(c) < MediumMax
IsHard(c)     == Population(c) < HardMax \/ Region(c) = "Oceania"
IsExpert(c)   == Population(c) < ExpertMax \/ Region(c) \in {"Oceania", "Americas"}

\* choose_easy without the fallback to the populous countries.
choose_easy_no_fallback(countries) ==
    IF \E k \in DOMAIN countries : "name" \notin DOMAIN countries[k]
    THEN ChoiceRaised
    ELSE LET pool == SelectSeq(countries, InEasyWhitelist)
         IN  ChoiceFrom(IF pool # <<>> THEN pool ELSE countries)

choose_easy(countries) ==
    IF \E k \in DOMAIN countries : "name" \notin DOMAIN countries[k]
    THEN ChoiceRaised                                           \* KeyError, line 99
    ELSE LET white    == SelectSeq(countries, InEasyWhitelist)
             pool     == IF white # <<>> THEN white
                         ELSE SelectSeq(countries, IsPopulous)
         IN  ChoiceFrom(IF pool # <<>> THEN pool ELSE countries)

choose_medium(countries) ==
    LET pool == SelectSeq(countries, IsMedium)
    IN  ChoiceFrom(IF pool = <<>> THEN countries ELSE pool)

choose_hard(countries) ==
    LET pool == SelectSeq(countries, IsHard)
    IN  ChoiceFrom(IF pool = <<>> THEN countries ELSE pool)

choose_expert(countries) ==
    LET pool == SelectSeq(countries, IsExpert)
    IN  ChoiceFrom(IF pool = <<>> THEN countries ELSE pool)

\* Lines 125-132.
Choose(diff_key_, countries) ==
    CASE diff_key_ = "easy"   -> choose_easy(countries)
      [] diff_key_ = "medium" -> choose_medium(countries)
      [] diff_key_ = "hard"   -> choose_hard(countries)
      [] OTHER                -> choose_expert(countries)

\* An emit that answers with the last capital of the list.
CapitalEmitLast(c) ==
    IF "name" \notin DOMAIN c THEN Raised
    ELSE Returned(<<"What is the capital of "
                        \o (IF Common(c) = None THEN "this country" ELSE Common(c))
                        \o "?",
                    c.capital[Len(c.capital)],
                    "Geography (Capitals)">>)

\* Lines 134-137 for the chosen record c.
CapitalEmit(c) ==
    IF "name" \notin DOMAIN c THEN Raised                       \* KeyError
    ELSE Returned(<<"What is the capital of "
                        \o (IF Common(c) = None THEN "this country" ELSE Common(c))
                        \o "?",
                    c.capital[1],
                    "Geography (Capitals)">>)

\* Lines 84-137 on what get_json returned: every way the call can go, with
\* the list the choice was made from and the record chosen.
CapitalRuns(diff_key_, data) ==
    IF Falsy(data) \/ Countries(data.val) = <<>>
    THEN {[out |-> Unavailable, pool |-> <<>>, chosen |-> <<>>]}
    ELSE LET ch == Choose(diff_key_, Countries(data.val)) IN
         IF ch.raised
         THEN {[out |-> Raised, pool |-> <<>>, chosen |-> <<>>]}
         ELSE {[out |-> CapitalEmit(ch.pool[k]), pool |-> ch.pool,
                chosen |-> <<ch.pool[k]>>] : k \in DOMAIN ch.pool}

fetch_restcountries_capital_question(diff_key_, net) ==
    UNION {{r.out : r \in CapitalRuns(diff_key_, data)} :
                data \in get_json("restcountries", net)}

-----------------------------------------------------------------------------
(* fetch_wikipedia_fact_question, get_music_lyrics_question,                *)
(* get_crossword_question                                                   *)

\* (topic, category, question, answer)
FactPools ==
    [easy |-> <<
        <<"Mitochondrion", "Science (Biology)",
          "What organelle is the 'powerhouse' of the cell?", "Mitochondrion">>,
        <<"Water", "Science", "What is the chemical formula for water?", "H2O">>,
        <<"Abraham Lincoln", "History (US)",
          "Which U.S. president delivered the Gettysburg Address?", "Abraham Lincoln">> >>,
     medium |-> <<
        <<"Photosynthesis", "Science (Biology)",
          "In plants, what gas is taken in during photosynthesis?", "Carbon dioxide">>,
        <<"Magna Carta", "History (World)",
          "The Magna Carta was sealed under King John in which century?", "13th century">>,
        <<"Periodic table", "Science (Chemistry)",
          "Who arranged elements by atomic number in the modern periodic table? (Last name)",
          "Moseley">> >>,
     hard |-> <<
        <<"General relativity", "Science (Physics)",
          "Which scientist proposed general relativity? (Last name)", "Einstein">>,
        <<"Abyssinia", "History/Geography",
          "Which modern country was historically known as Abyssinia?", "Ethiopia">>,
        <<"Alexander von Humboldt", "History/Science",
          "Prussian naturalist called the 'father of modern geography'?",
          "Alexander von Humboldt">> >>,
     expert |-> <<
        <<"Yamoussoukro", "Geography/History",
          "Which country has Yamoussoukro as its political capital?", "Cote d'Ivoire">>,
        <<"Ngerulmud", "Geography", "Ngerulmud is the capital of which island nation?",
          "Palau">>,
        <<"Sri Jayawardenepura Kotte", "Geography",
          "What is Sri Lanka's legislative capital city called?",
          "Sri Jayawardenepura Kotte">> >>]

\* Lines 166-168 for the chosen fact and what get_json returned.
FactParse(fact, resp) ==
    IF Falsy(resp) THEN Unavailable
    ELSE IF "type" \in DOMAIN resp.val /\ resp.val.type = NotFoundType THEN Unavailable
    ELSE Returned(<<fact[3], fact[4], fact[2]>>)

fetch_wikipedia_fact_question(diff_key_, net) ==
    LET pool == IF diff_key_ \in DOMAIN FactPools
                THEN FactPools[diff_key_] ELSE FactPools["easy"]
    IN  {FactParse(pool[k], resp) :
            k \in DOMAIN pool, resp \in get_json("wikipedia", net)}

\* (lyric, song, artist)
MUSIC_SNIPPETS == <<
    <<"Amazing grace, how sweet the sound", "Amazing Grace", "Traditional">>,
    <<"Twinkle, twinkle, little star, how I wonder", "Twinkle, Twinkle, Little Star",
      "Traditional">>,
    <<"Happy birthday to you, happy birthday to you", "Happy Birthday to You",
      "Traditional">>,
    <<"You can call me queen bee, and baby I'll rule", "Royals", "Lorde">>,
    <<"Is this the real life, is this just fantasy", "Bohemian Rhapsody", "Queen">>,
    <<"Hello from the other side, I must have", "Hello", "Adele">>,
    <<"Cause baby you're a firework, come on, show 'em", "Firework", "Katy Perry">> >>

LyricsCategory == "Music (Lyrics <=10 words)"

get_music_lyrics_question ==
    {Returned(<<"Music -- Name That Song: '" \o MUSIC_SNIPPETS[k][1]
                    \o " ...'  * Name the song and artist.",
                MUSIC_SNIPPETS[k][2] \o " -- " \o MUSIC_SNIPPETS[k][3],
                LyricsCategory>>) : k \in DOMAIN MUSIC_SNIPPETS}

\* (clue, answer)
easy_items == <<
    <<"Opposite of 'yin' (4).", "YANG">>,
    <<"French 'yes' (3).", "OUI">>,
    <<"Unit of electrical resistance (3).", "OHM">>,
    <<"Greek letter after alpha (4).", "BETA">>,
    <<"Ocean-warming pattern; ignore diacritics (6).", "ELNINO">> >>

hard_items == <<
    <<"Shakespearean 'before' (3).", "ERE">>,
    <<"Prefix meaning 'earth' (3).", "GEO">>,
    <<"Church recess (4).", "APSE">>,
    <<"Long heroic poem (4).", "EPIC">>,
    <<"Tree resin (4).", "AMBER">> >>

get_crossword_question(diff_key_) ==
    LET pool == IF diff_key_ \in {"easy", "medium"} THEN easy_items ELSE hard_items
    IN  {Returned(<<"Crossword-style clue: " \o pool[k][1], pool[k][2], "Crossword">>) :
            k \in DOMAIN pool}

-----------------------------------------------------------------------------
(* pick_generator *)

\* A generator of the list: the lambda's callee and its argument.
Gen(kind, arg) == [kind |-> kind, arg |-> arg]

\* Pools in which Hard keeps the lyric generator.
PoolsLyricsAtHard(diff_key_) ==
    IF diff_key_ \in {"easy", "medium", "hard"}
    THEN <<Gen("opentdb", diff_key_), Gen("capital", diff_key_), Gen("fact", diff_key_),
           Gen("lyrics", None), Gen("crossword", diff_key_)>>
    ELSE <<Gen("opentdb", "hard"), Gen("capital", "expert"), Gen("fact", "expert"),
           Gen("crossword", "expert")>>

\* Pools in which Expert passes its own tier to the general-knowledge generator.
PoolsUncapped(diff_key_) ==
    IF diff_key_ \in {"easy", "medium"}
    THEN <<Gen("opentdb", diff_key_), Gen("capital", diff_key_), Gen("fact", diff_key_),
           Gen("lyrics", None), Gen("crossword", diff_key_)>>
    ELSE IF diff_key_ = "hard"
    THEN <<Gen("opentdb", "hard"), Gen("capital", "hard"), Gen("fact", "hard"),
           Gen("crossword", "hard")>>
    ELSE <<Gen("opentdb", "expert"), Gen("capital", "expert"), Gen("fact", "expert"),
           Gen("crossword", "expert")>>

\* Pools in which Expert has no crossword generator.
PoolsNoCrosswordAtExpert(diff_key_) ==
    IF diff_key_ \in {"easy", "medium"}
    THEN <<Gen("opentdb", diff_key_), Gen("capital", diff_key_), Gen("fact", diff_key_),
           Gen("lyrics", None), Gen("crossword", diff_key_)>>
    ELSE IF diff_key_ = "hard"
    THEN <<Gen("opentdb", "hard"), Gen("capital", "hard"), Gen("fact", "hard"),
           Gen("crossword", "hard")>>
    ELSE <<Gen("opentdb", "hard"), Gen("capital", "expert"), Gen("fact", "expert")>>

\* Lines 211-240: the generators built for a tier, in source order.
Pools(diff_key_) ==
    CASE diff_key_ = "easy" ->
            <<Gen("opentdb", "easy"), Gen("capital", "easy"), Gen("fact", "easy"),
              Gen("lyrics", None), Gen("crossword", "easy")>>
      [] diff_key_ = "medium" ->
            <<Gen("opentdb", "medium"), Gen("capital", "medium"), Gen("fact", "medium"),
              Gen("lyrics", None), Gen("crossword", "medium")>>
      [] diff_key_ = "hard" ->
            <<Gen("opentdb", "hard"), Gen("capital", "hard"), Gen("fact", "hard"),
              Gen("crossword", "hard")>>
      [] OTHER ->
            <<Gen("opentdb", "hard"), Gen("capital", "expert"), Gen("fact", "expert"),
              Gen("crossword", "expert")>>

\* random.shuffle(generators): every order of the list.
Shuffles(list) ==
    {p \in [DOMAIN list -> Range(list)] :
        \A a, b \in DOMAIN list : a # b => p[a] # p[b]}

\* The outcomes of the capital generator, per tier and network state.
CapitalOutcomes ==
    [d \in DiffKeys, n \in {"up", "down"} |-> fetch_restcountries_capital_question(d, n)]

\* g(): every way the call of generator g can go.
Call(g, net) ==
    CASE g.kind = "opentdb"   -> fetch_opentdb_question(g.arg, None, net)
      [] g.kind = "capital"   -> CapitalOutcomes[g.arg, net]
      [] g.kind = "fact"      -> fetch_wikipedia_fact_question(g.arg, net)
      [] g.kind = "lyrics"    -> get_music_lyrics_question
      [] g.kind = "crossword" -> get_crossword_question(g.arg)

\* The difficulty parameter of the HTTP request generator g issues
\* (None: the request carries none, or g issues no request to OpenTDB).
SentDifficulty(g) ==
    IF g.kind = "opentdb" /\ "difficulty" \in DOMAIN OpentdbParams(g.arg, None)
    THEN OpentdbParams(g.arg, None).difficulty
    ELSE None

\* A test that looks at the question only.
UsableQuestionOnly(t) == Truthy(t[1])

\* Line 245: `if q and a`.
Usable(t) == Truthy(t[1]) /\ Truthy(t[2])

Sentinel ==
    <<"Couldn't fetch a question right now. Check your internet and try again.",
      "--", "Error">>

\* No tuple: the value of a variable that holds no record (Python's None).
NoRecord == <<>>

\* One pass of lines 243-247 at position k of the list gens: what happens
\* next ("loop": next iteration, "returned", "raised"), the tuple returned
\* and the call made.
LoopBody(gens, k, net) ==
    IF k > Len(gens)
    THEN {[next |-> "returned", ret |-> Sentinel, call |-> <<>>]}
    ELSE {[next |-> IF out.raised THEN "raised"
                    ELSE IF Usable(out.val) THEN "returned" ELSE "loop",
           ret  |-> IF ~out.raised /\ Usable(out.val) THEN out.val ELSE NoRecord,
           call |-> <<[gen |-> gens[k], out |-> out, sent |-> SentDifficulty(gens[k])]>>] :
            out \in Call(gens[k], net)}

RECURSIVE RunLoop(_, _, _)
\* Lines 243-247 run to completion from position k.
RunLoop(gens, k, net) ==
    UNION {CASE s.next = "raised"   -> {Raised}
             [] s.next = "returned" -> {Returned(s.ret)}
             [] OTHER               -> RunLoop(gens, k + 1, net) :
                s \in LoopBody(gens, k, net)}

\* pick_generator(difficulty_label): every result the call can have.
pick_generator(difficulty_label, net) ==
    UNION {RunLoop(gens, 1, net) : gens \in Shuffles(Pools(DiffMapGet(difficulty_label)))}

-----------------------------------------------------------------------------
(* SpecPick: one pick_generator request at a time *)

PickIdle ==
    /\ pc = "idle" /\ diff_key = "easy" /\ generators = <<>> /\ i = 1
    /\ calls = <<>> /\ ret = NoRecord

\* Lines 207-242: the tier, the pool, the shuffle.  Line 208 computes
\* diff_api = map_to_trivia_api(difficulty_label); no generator reads it, the
\* lambdas carry their arguments as literals.
StartRequest ==
    /\ pc = "idle"
    /\ \E label \in Range(DIFF_LABELS) :
        /\ diff_key' = DiffMapGet(label)
        /\ generators' \in Shuffles(Pools(DiffMapGet(label)))
    /\ i' = 1
    /\ calls' = <<>>
    /\ ret' = NoRecord
    /\ pc' = "loop"
    /\ UNCHANGED <<network, hostVars, capVars>>

\* Lines 243-247: one iteration of the loop, or the return after the loop.
LoopStep ==
    /\ pc = "loop"
    /\ \E s \in LoopBody(generators, i, network) :
        /\ pc' = s.next
        /\ ret' = s.ret
        /\ calls' = calls \o s.call
        /\ i' = IF s.next = "loop" THEN i + 1 ELSE i
    /\ UNCHANGED <<network, diff_key, generators, hostVars, capVars>>

\* The request is over; the next one starts afresh.
EndRequest ==
    /\ pc \in {"returned", "raised"}
    /\ pc' = "idle" /\ diff_key' = "easy" /\ generators' = <<>> /\ i' = 1
    /\ calls' = <<>> /\ ret' = NoRecord
    /\ UNCHANGED <<network, hostVars, capVars>>

\* The network goes down or comes back between requests.
NetworkChange ==
    /\ pc = "idle" /\ capPc = "idle"
    /\ network' = IF network = "up" THEN "down" ELSE "up"
    /\ UNCHANGED <<hostVars, pickVars, capVars>>

-----------------------------------------------------------------------------
(* SpecCapital: one call of fetch_restcountries_capital_question *)

CapIdle ==
    /\ capPc = "idle" /\ capTier = "easy" /\ capData = NoneJson
    /\ capPool = <<>> /\ capChosen = <<>> /\ capOut = Unavailable

\* Line 83: the request.
CapitalFetch ==
    /\ capPc = "idle"
    /\ capTier' \in DiffKeys
    /\ capData' \in get_json("restcountries", network)
    /\ capPc' = "fetched"
    /\ UNCHANGED <<network, capPool, capChosen, capOut, hostVars, pickVars>>

\* Lines 84-132: the early returns, the partition, the choice.
CapitalChoose ==
    /\ capPc = "fetched"
    /\ \E r \in CapitalRuns(capTier, capData) :
        /\ capPool' = r.pool
        /\ capChosen' = r.chosen
        /\ capOut' = r.out
    /\ capPc' = "done"
    /\ UNCHANGED <<network, capTier, capData, hostVars, pickVars>>

CapitalReset ==
    /\ capPc = "done"
    /\ capPc' = "idle" /\ capTier' = "easy" /\ capData' = NoneJson
    /\ capPool' = <<>> /\ capChosen' = <<>> /\ capOut' = Unavailable
    /\ UNCHANGED <<network, hostVars, pickVars>>

-----------------------------------------------------------------------------
(* Spec: the script, run once per user event *)

\* The results of pick_generator, per label and network state.
PickResults ==
    [l \in Range(DIFF_LABELS), n \in {"up", "down"} |-> pick_generator(l, n)]

\* Lines 252-255: the keys of st.session_state are created on the first run.
WithDefaults(ss) ==
    [qa       |-> IF "qa" \in DOMAIN ss THEN ss.qa ELSE NoRecord,
     revealed |-> IF "revealed" \in DOMAIN ss THEN ss.revealed ELSE FALSE]

\* Lines 269-272: the New Question button.  An exception of pick_generator
\* ends the run before anything is stored.
NewQuestionPart(ss, d, ev, net) ==
    IF ev = "new"
    THEN {[ss        |-> IF r.raised THEN ss ELSE [qa |-> r.val, revealed |-> FALSE],
           aborted   |-> r.raised,
           requested |-> <<d>>,
           returned  |-> IF r.raised THEN <<>> ELSE <<r.val>>] : r \in PickResults[d, net]}
    ELSE {[ss |-> ss, aborted |-> FALSE, requested |-> <<>>, returned |-> <<>>]}

\* Lines 276-278: the first question.
FirstQuestionPart(s, net) ==
    IF s.aborted \/ s.ss.qa # NoRecord
    THEN {s}
    ELSE {[ss        |-> IF r.raised THEN s.ss ELSE [s.ss EXCEPT !.qa = r.val],
           aborted   |-> r.raised,
           requested |-> Append(s.requested, "Baby Barbara"),
           returned  |-> IF r.raised THEN s.returned ELSE <<r.val>>] :
            r \in PickResults["Baby Barbara", net]}

\* Lines 280-297: the question card, the Reveal Answer button, the answer.
CardPart(s, ev) ==
    IF s.aborted
    THEN s @@ [answerShown |-> None, revealButton |-> FALSE]
    ELSE LET rev == s.ss.revealed \/ ev = "reveal" IN
         [s EXCEPT !.ss.revealed = rev]
            @@ [answerShown  |-> IF rev THEN s.ss.qa[2] ELSE None,
                revealButton |-> TRUE]

\* One run of the script with radio value d, caused by ev.
ScriptRuns(ss, d, ev, net) ==
    {CardPart(s2, ev) :
        s2 \in UNION {FirstQuestionPart(s1, net) :
                        s1 \in NewQuestionPart(WithDefaults(ss), d, ev, net)}}

Run(d, ev) ==
    /\ \E s \in ScriptRuns(session_state, d, ev, network) :
        /\ session_state' = s.ss
        /\ requested' = s.requested
        /\ aborted' = s.aborted
        /\ answerShown' = s.answerShown
        /\ revealButton' = s.revealButton
        /\ lastReturned' = IF s.returned = <<>> THEN lastReturned ELSE s.returned[1]
    /\ difficulty' = d
    /\ event' = ev
    /\ UNCHANGED <<network, pickVars, capVars>>

\* The session opens the page: the first run (radio at index 0, no button).
FirstLoad ==
    /\ session_state = EmptyDict
    /\ Run(DIFF_LABELS[1], "load")

\* The user selects another difficulty: a rerun with no button pressed.
SelectDifficulty ==
    /\ session_state # EmptyDict
    /\ \E d \in Range(DIFF_LABELS) \ {difficulty} : Run(d, "radio")

\* The user presses New Question.
PressNewQuestion ==
    /\ session_state # EmptyDict
    /\ Run(difficulty, "new")

\* The user presses Reveal Answer, which the latest run rendered.
PressReveal ==
    /\ session_state # EmptyDict
    /\ revealButton
    /\ Run(difficulty, "reveal")

\* The network goes down or comes back between script runs.
HostNetworkChange ==
    /\ network' = IF network = "up" THEN "down" ELSE "up"
    /\ UNCHANGED <<hostVars, pickVars, capVars>>

-----------------------------------------------------------------------------
(* The specifications *)

Init ==
    /\ network = "up"
    /\ session_state = EmptyDict
    /\ difficulty = DIFF_LABELS[1]
    /\ event = "none"
    /\ requested = <<>>
    /\ aborted = FALSE
    /\ answerShown = None
    /\ revealButton = FALSE
    /\ lastReturned = NoRecord
    /\ PickIdle
    /\ CapIdle

Next ==
    \/ FirstLoad
    \/ SelectDifficulty
    \/ PressNewQuestion
    \/ PressReveal
    \/ HostNetworkChange

Spec == Init /\ [][Next]_vars

NextPick ==
    \/ StartRequest
    \/ LoopStep
    \/ EndRequest
    \/ NetworkChange

SpecPick == Init /\ [][NextPick]_vars

NextCapital ==
    \/ CapitalFetch
    \/ CapitalChoose
    \/ CapitalReset

SpecCapital == Init /\ [][NextCapital]_vars

-----------------------------------------------------------------------------
(* Properties of pick_generator (SpecPick) *)

\* A question and an answer that are both non-empty strings.
BothNonEmpty(t) == t[1] \notin {None, ""} /\ t[2] \notin {None, ""}

\* C1: pick_generator never raises, whatever the content sources answer.
C1_NeverRaises == pc # "raised"

\* C2: if every content source is unavailable, pick_generator returns the
\* sentinel record exactly.
C2_SentinelWhenSourcesDown ==
    (pc = "returned" /\ network = "down") => ret = Sentinel

\* C2, amended: if every network content source is unavailable,
\* pick_generator does not raise and returns, not the sentinel, but a record
\* of a generator that needs no network: a crossword record, or at Easy and
\* Medium possibly a lyric record.
C2_LocalRecordWhenSourcesDown ==
    network = "down" =>
        /\ pc # "raised"
        /\ pc = "returned" =>
            /\ ret # Sentinel
            /\ BothNonEmpty(ret)
            /\ ret[3] \in {"Crossword"}
                    \cup (IF diff_key \in {"easy", "medium"} THEN {LyricsCategory} ELSE {})

\* Hard tier, network down: the three network generators were tried and
\* were unavailable, and the crossword generator, last in the order, answered.
C2_Witness ==
    /\ pc = "returned" /\ network = "down" /\ diff_key = "hard"
    /\ Len(calls) = Len(generators)
    /\ \A k \in 1..(Len(calls) - 1) : calls[k].out = Unavailable
    /\ ret[3] = "Crossword"

\* C3: the generators are invoked one at a time in the shuffled order; the
\* record returned is the output of the first generator of that order whose
\* question and answer are both non-empty, and no generator after it is
\* invoked.
C3_FirstUsableInOrder ==
    /\ Len(calls) <= Len(generators)
    /\ \A k \in DOMAIN calls : calls[k].gen = generators[k]
    /\ \A k \in DOMAIN calls :
            k < Len(calls) => ~calls[k].out.raised /\ ~BothNonEmpty(calls[k].out.val)
    /\ pc = "loop" => Len(calls) = i - 1
    /\ pc = "returned" =>
        \/ /\ calls # <<>>
           /\ ~calls[Len(calls)].out.raised
           /\ BothNonEmpty(calls[Len(calls)].out.val)
           /\ ret = calls[Len(calls)].out.val
        \/ /\ ret = Sentinel
           /\ Len(calls) = Len(generators)
           /\ \A k \in DOMAIN calls : ~BothNonEmpty(calls[k].out.val)

\* A request in which generators before the returning one were unusable,
\* one of them with a question but an empty answer, and generators after it
\* were never invoked.
C3_Witness ==
    /\ pc = "returned"
    /\ Len(calls) >= 2 /\ Len(calls) < Len(generators)
    /\ \E k \in 1..(Len(calls) - 1) :
            calls[k].out.val[1] \notin {None, ""} /\ calls[k].out.val[2] = ""

\* C4: the pools of Easy and Medium contain the lyric generator, the pools
\* of Hard and Expert do not, and no request at Hard or Expert returns a
\* record of the lyric category.
C4_LyricsOnlyEasyMedium ==
    /\ pc # "idle" =>
        ((\E k \in DOMAIN generators : generators[k].kind = "lyrics")
            <=> diff_key \in {"easy", "medium"})
    /\ (pc = "returned" /\ diff_key \in {"hard", "expert"}) => ret[3] # LyricsCategory

\* A Hard or Expert request that returned after at least two generators of
\* its lyric-free pool had failed.
C4_Witness ==
    /\ pc = "returned" /\ diff_key \in {"hard", "expert"}
    /\ Len(calls) >= 3

\* C5: at Expert the general-knowledge generator sends difficulty "hard"
\* (the difficulty sent is always easy, medium or hard), while the capital,
\* fact and crossword generators are called with "expert".
C5_ExpertCapsOpentdb ==
    \A k \in DOMAIN calls :
        LET c == calls[k] IN
        /\ c.gen.kind = "opentdb" => c.sent \in {"easy", "medium", "hard"}
        /\ diff_key = "expert" =>
            /\ c.gen.kind = "opentdb" => c.sent = "hard"
            /\ c.gen.kind \in {"capital", "fact", "crossword"} => c.gen.arg = "expert"

\* An Expert request that called all four generators of its pool.
C5_Witness ==
    /\ diff_key = "expert"
    /\ {calls[k].gen.kind : k \in DOMAIN calls} = {"opentdb", "capital", "fact", "crossword"}

\* C7: every record pick_generator returns has a non-empty question, a
\* non-empty answer and a non-empty category.
C7_AllFieldsNonEmpty ==
    pc = "returned" => \A k \in 1..3 : ret[k] \notin {None, ""}

\* C10: every pool contains the crossword generator, and pick_generator
\* never returns the sentinel.
C10_SentinelUnreachable ==
    /\ pc # "idle" => \E k \in DOMAIN generators : generators[k].kind = "crossword"
    /\ pc = "returned" => (ret # Sentinel /\ ret[3] # "Error")

\* Expert tier, network up: the three network generators all came back
\* unusable and the crossword generator, last in the order, answered.
C10_Witness ==
    /\ pc = "returned" /\ network = "up" /\ diff_key = "expert"
    /\ Len(calls) = Len(generators)
    /\ calls[Len(calls)].gen.kind = "crossword"
    /\ ret = calls[Len(calls)].out.val

-----------------------------------------------------------------------------
(* Properties of the capital generator (SpecCapital) *)

\* The records of the fetched list that have a non-empty capital list.
Candidates ==
    IF Falsy(capData) THEN {}
    ELSE {c \in Range(capData.val) : "capital" \in DOMAIN c /\ Len(c.capital) > 0}

\* The tier's predicate, as the partition is described.
TierPredicate(tier, c) ==
    CASE tier = "medium" -> 5000000 <= Population(c) /\ Population(c) < 20000000
      [] tier = "hard"   -> Population(c) < 5000000 \/ Region(c) = "Oceania"
      [] tier = "expert" -> Population(c) < 1000000 \/ Region(c) \in {"Oceania", "Americas"}

-----------------------------------------------------------------------------
(* Properties of the script (Spec) *)

\* The stored record and the reveal flag (the defaults before the first run).
StoredRecord == WithDefaults(session_state).qa
Revealed == WithDefaults(session_state).revealed

\* C6: a generation request is made, and the stored record replaced, only
\* by the first load and by New Question; a rerun caused by selecting a
\* difficulty or by Reveal Answer makes no request and leaves the record.
C6_FetchOnlyOnLoadOrNew ==
    /\ [][(SelectDifficulty \/ PressReveal) =>
            /\ requested' = <<>>
            /\ StoredRecord' = StoredRecord]_vars
    /\ [][StoredRecord' # StoredRecord => (FirstLoad \/ PressNewQuestion)]_vars

\* C9: first load gives Unrevealed with a record generated for "Baby
\* Barbara"; the flag becomes true only by Reveal Answer and stays true until
\* New Question, which sets it to false and stores the new record; an answer
\* on display is the answer of the record pick_generator returned last.
C9_RevealStateMachine ==
    /\ [][FirstLoad =>
            /\ requested' = <<"Baby Barbara">>
            /\ StoredRecord' # NoRecord
            /\ StoredRecord' = lastReturned'
            /\ ~Revealed']_vars
    /\ [][(~Revealed /\ Revealed') => PressReveal]_vars
    /\ [][(Revealed /\ ~PressNewQuestion) => Revealed']_vars
    /\ [][PressNewQuestion =>
            /\ ~Revealed'
            /\ requested' = <<difficulty>>
            /\ StoredRecord' = lastReturned']_vars
    /\ [](answerShown # None => answerShown = lastReturned[2])

====
